---- MODULE Spec2Model ----
(***************************************************************************)
(* Model of the /download handler of app.py: request validation, the       *)
(* 'downloading' callback, the temporary directory, the yt-dlp extraction, *)
(* the search for the downloaded file, the Supabase upload, the 'ready'    *)
(* callback, the release of the temporary directory and the except         *)
(* handler that sends the 'failed' callback.                               *)
(*                                                                         *)
(* Python values: a str is a sequence of one-character strings; None is    *)
(* <<>> and any other value v is <<v>>; a dict entry that may be missing   *)
(* is <<>> (no such key) or <<x>> with x the entry's value.                *)
(***************************************************************************)
EXTENDS Integers, Sequences, FiniteSets, TLC

\* ---------------------------------------------------------------- bounds
MaxTitleLen == 256
MaxErrLen == 501
MaxFiles == 2
MaxStrategies == 2

\* ------------------------------------------------------ program constants
TitleLimit == 255
DurationCap == 86400
ErrLimit == 500

\* ---------------------------------------------------------- Python values
PyNone == <<>>
Val(v) == <<v>>
NoKey == <<>>
Key(x) == <<x>>

Min(a, b) == IF a < b THEN a ELSE b

Chars(n, c) == [i \in 1..n |-> c]

\* s[:n]
Prefix(s, n) == SubSeq(s, 1, Min(Len(s), n))

\* f.startswith(p)
StartsWith(f, p) == Len(p) <= Len(f) /\ SubSeq(f, 1, Len(p)) = p

\* position of the last '.' of f, 0 when f has none
LastDot(f) ==
  LET dots == {i \in 1..Len(f) : f[i] = "."}
  IN IF dots = {} THEN 0 ELSE CHOOSE i \in dots : \A k \in dots : k <= i

\* f.split('.')[-1]
LastSegment(f) == SubSeq(f, LastDot(f) + 1, Len(f))

\* info.get(key, default) / data.get(key, default)
DictGet(entry, default) == IF entry = NoKey THEN default ELSE entry[1]

\* truth value of a str-or-None
TruthyStr(x) == x # PyNone /\ Len(x[1]) > 0

\* truth value of an int-or-None
TruthyInt(x) == x # PyNone /\ x[1] # 0

\* --------------------------------------------------------------- inputs
ApiSecret == "k1"
AssetId == <<"a", "1">>
ArtistId == <<"r", "7">>
CallbackUrl == <<"c", "b">>
SourceUrl == <<"u">>

MP3 == <<"m", "p", "3">>
MP4 == <<"m", "p", "4">>
WEBM == <<"w", "e", "b", "m">>
Dot == <<".">>

\* the file names the extraction may leave in the temporary directory
FileNames ==
  { AssetId \o Dot \o MP3,
    AssetId \o Dot \o MP4,
    AssetId \o Dot \o WEBM,
    AssetId,
    <<"o", "u", "t">> \o Dot \o MP3,
    <<"x">> \o Dot \o MP4 }

Listings == {S \in SUBSET FileNames : Cardinality(S) <= MaxFiles}

SongA == <<"S", "o", "n", "g", " ", "A">>
Unknown == <<"U", "n", "k", "n", "o", "w", "n">>

\* info['title']: missing, None, '', 'Song A', and titles at and over the limit
Titles ==
  { NoKey, Key(PyNone), Key(Val(<<>>)), Key(Val(SongA)),
    Key(Val(Chars(TitleLimit, "t"))), Key(Val(Chars(MaxTitleLen, "t"))) }

\* info['duration']: missing, None, 0, 180, and durations at and over the cap
Durations ==
  { NoKey, Key(PyNone), Key(Val(0)), Key(Val(180)),
    Key(Val(DurationCap)), Key(Val(DurationCap + 1)) }

Thumbnails == { NoKey, Key(Val("https://thumb")) }

\* str(e) of the exceptions the collaborators raise
ErrMsgs == { Chars(0, "e"), Chars(ErrLimit, "e"), Chars(MaxErrLen, "e") }

\* str(e) of an OSError: '[Errno 13] Permission denied: ...'
OsErrMsg == Chars(13, "o")

\* str(e) of an error of get_public_url
UrlErrMsg == Chars(3, "u")

\* outcome of requests.post: status 200, another status, or an exception
PostOutcomes == { "status_200", "status_other", "raises" }

\* config: api_secret and whether the Supabase client exists (lines 12-15)
\* data:   request.json of the call (line 54)
\* remote: what the remote service answers to the n-th extraction attempt
\* job:    the position, locals and effects of the call of download()
\* ref:    the same call when every callback is answered with status 200
VARIABLES config, data, remote, job, ref

\* two calls of download() that run at the same time, each on its own worker
JobIds == {1, 2}

\* the names tempfile may give to a directory under the system's temp root
DirNames == {"tmp_a", "tmp_b"}

\* calls:    the position, locals and effects of each of the two calls
\* solo:     each of the two calls when it runs alone, with the same outcomes
\*           of its external calls
\* temp_dir: the local temp_dir of each call (line 86), "none" before it is set
\* tmpfs:    the temp root: for each name, <<>> when no such directory exists
\*           and <<files>> when it does
VARIABLES calls, solo, temp_dir, tmpfs

concvars == <<calls, solo, temp_dir, tmpfs>>

vars == <<config, data, remote, job, ref, calls, solo, temp_dir, tmpfs>>

\* ------------------------------------------------------------ the handler
\* the requests the front door may hand to download(): request.json
Requests ==
  [ secret : { Val(ApiSecret), Val("wrong"), PyNone },
    url : { Val(SourceUrl), PyNone },
    type : { NoKey, Key("audio"), Key("video") },
    asset_id : { Val(AssetId), PyNone },
    artist_id : { Val(ArtistId), PyNone },
    callback_url : { Val(CallbackUrl), PyNone } ]

\* module-level configuration: api_secret and the Supabase client
Configs == [ api_secret : { Val(ApiSecret) }, supabase : BOOLEAN ]

\* the locals and effects of one call of download()
NewJob ==
  [ pc |-> "validate",
    media_type |-> PyNone, expected_ext |-> PyNone, bucket |-> PyNone,
    title |-> PyNone, duration |-> PyNone, thumbnail |-> PyNone,
    downloaded_file |-> PyNone, storage_path |-> PyNone, public_url |-> PyNone,
    exc |-> PyNone, error_msg |-> PyNone, retval |-> PyNone,
    tmp |-> "none", files |-> {},
    attempts |-> 0, steps |-> <<>>,
    uploads |-> <<>>, sent |-> <<>>, cbret |-> <<>>, cbraised |-> 0,
    raised |-> <<>>, resp |-> PyNone ]

Exc(site, msg) == [site |-> site, msg |-> msg]

\* return <response>: leaves the function (outside the with-block)
Return(j, response) == [j EXCEPT !.pc = "done", !.resp = Val(response)]

\* an exception raised inside the try but outside the with-block
RaiseInTry(j, e) ==
  [j EXCEPT !.pc = "handler", !.exc = Val(e), !.raised = Append(@, e)]

\* an exception raised inside the with-block: the block is left first
RaiseInWith(j, e) ==
  [j EXCEPT !.pc = "exit_with", !.exc = Val(e), !.raised = Append(@, e)]

\* send_callback without its try/except: the exception of requests.post escapes
send_callback_unguarded(callback_url, payload, outcome) ==
  [ raised |-> outcome = "raises", ret |-> outcome = "status_200" ]

\* send_callback(callback_url, payload): what the call does to its caller
send_callback(callback_url, payload, outcome) ==
  [ raised |-> FALSE, ret |-> outcome = "status_200" ]

\* the record of one send_callback call in the job
Called(j, payload, r) ==
  [j EXCEPT !.sent = Append(@, payload),
            !.cbret = IF r.raised THEN @ ELSE Append(@, r.ret),
            !.cbraised = IF r.raised THEN @ + 1 ELSE @]

CallbackExc == Exc("callback", Chars(3, "e"))

\* Validate with a fault: a request without a storage client is reported to
\* the callback receiver before it is rejected
ValidateNotifies(j, d, c) ==
  IF d.secret # c.api_secret
    THEN Return(j, [code |-> 401, reject |-> "Unauthorized"])
  ELSE IF ~TruthyStr(d.url) \/ ~TruthyStr(d.asset_id) \/ ~TruthyStr(d.artist_id)
    THEN Return(j, [code |-> 400, reject |-> "Missing required fields"])
  ELSE IF ~TruthyStr(d.callback_url)
    THEN Return(j, [code |-> 400, reject |-> "Missing callback_url"])
  ELSE IF ~c.supabase
    THEN Return([j EXCEPT !.sent = Append(@, [asset_id |-> d.asset_id,
                                              status |-> "failed",
                                              error_message |-> <<>>,
                                              secret |-> c.api_secret])],
                [code |-> 500, reject |-> "Supabase not configured"])
  ELSE [j EXCEPT !.pc = "send_downloading",
                 !.media_type = Val(DictGet(d.type, "audio"))]

\* Validate without the check of the secret (lines 60-61)
ValidateNoSecret(j, d, c) ==
  IF ~TruthyStr(d.url) \/ ~TruthyStr(d.asset_id) \/ ~TruthyStr(d.artist_id)
    THEN Return(j, [code |-> 400, reject |-> "Missing required fields"])
  ELSE IF ~TruthyStr(d.callback_url)
    THEN Return(j, [code |-> 400, reject |-> "Missing callback_url"])
  ELSE IF ~c.supabase
    THEN Return(j, [code |-> 500, reject |-> "Supabase not configured"])
  ELSE [j EXCEPT !.pc = "send_downloading",
                 !.media_type = Val(DictGet(d.type, "audio"))]

\* lines 58-74: the checks before any work is done
Validate(j, d, c) ==
  IF d.secret # c.api_secret
    THEN Return(j, [code |-> 401, reject |-> "Unauthorized"])
  ELSE IF ~TruthyStr(d.url) \/ ~TruthyStr(d.asset_id) \/ ~TruthyStr(d.artist_id)
    THEN Return(j, [code |-> 400, reject |-> "Missing required fields"])
  ELSE IF ~TruthyStr(d.callback_url)
    THEN Return(j, [code |-> 400, reject |-> "Missing callback_url"])
  ELSE IF ~c.supabase
    THEN Return(j, [code |-> 500, reject |-> "Supabase not configured"])
  ELSE [j EXCEPT !.pc = "send_downloading",
                 !.media_type = Val(DictGet(d.type, "audio"))]

DownloadingPayload(d, c) ==
  [asset_id |-> d.asset_id, status |-> "downloading", secret |-> c.api_secret]

\* SendDownloading with a fault: the job only goes on when the callback was delivered
SendDownloadingGated(j, d, c, outcome) ==
  LET payload == DownloadingPayload(d, c)
      r == send_callback(d.callback_url, payload, outcome)
      j1 == Called(j, payload, r)
  IN IF r.raised \/ ~r.ret THEN RaiseInTry(j1, CallbackExc)
     ELSE [j1 EXCEPT !.pc = "mktemp"]

\* lines 79-83
SendDownloading(j, d, c, outcome) ==
  LET payload == DownloadingPayload(d, c)
      r == send_callback(d.callback_url, payload, outcome)
      j1 == Called(j, payload, r)
  IN IF r.raised THEN RaiseInTry(j1, CallbackExc)
     ELSE [j1 EXCEPT !.pc = "mktemp"]

\* lines 86-114: tempfile.TemporaryDirectory() and the yt-dlp options
MkTemp(j, outcome) ==
  IF outcome.ok
    THEN [j EXCEPT !.pc = "extract", !.tmp = "exists", !.files = {},
                   !.expected_ext = Val(IF j.media_type = Val("audio") THEN MP3 ELSE MP4),
                   !.bucket = Val(IF j.media_type = Val("audio")
                                    THEN "audio-files" ELSE "media-assets")]
    ELSE RaiseInTry(j, Exc("mktemp", outcome.msg))

\* Extract with an unbounded retry: a failed attempt is always repeated
ExtractRetriesForever(j, outcome) ==
  LET j1 == [j EXCEPT !.attempts = @ + 1, !.steps = Append(@, "extract"),
                      !.files = outcome.files]
  IN IF outcome.ok
       THEN [j1 EXCEPT !.pc = "locate",
                       !.title = DictGet(outcome.info.title, Val(Unknown)),
                       !.duration = DictGet(outcome.info.duration, Val(0)),
                       !.thumbnail = DictGet(outcome.info.thumbnail, PyNone)]
       ELSE [j1 EXCEPT !.raised = Append(@, Exc("extract", outcome.msg))]

\* Extract with a retry: a failed attempt is followed by another attempt
ExtractWithFallback(j, outcome) ==
  LET j1 == [j EXCEPT !.attempts = @ + 1, !.steps = Append(@, "extract"),
                      !.files = outcome.files]
  IN IF outcome.ok
       THEN [j1 EXCEPT !.pc = "locate",
                       !.title = DictGet(outcome.info.title, Val(Unknown)),
                       !.duration = DictGet(outcome.info.duration, Val(0)),
                       !.thumbnail = DictGet(outcome.info.thumbnail, PyNone)]
     ELSE IF j1.attempts < MaxStrategies
       THEN [j1 EXCEPT !.raised = Append(@, Exc("extract", outcome.msg))]
     ELSE RaiseInWith(j1, Exc("extract", outcome.msg))

\* Extract with a fault: the error of a failed attempt is swallowed
ExtractIgnoresFailure(j, outcome) ==
  LET j1 == [j EXCEPT !.attempts = @ + 1, !.steps = Append(@, "extract"),
                      !.files = outcome.files]
  IN IF outcome.ok
       THEN [j1 EXCEPT !.pc = "locate",
                       !.title = DictGet(outcome.info.title, Val(Unknown)),
                       !.duration = DictGet(outcome.info.duration, Val(0)),
                       !.thumbnail = DictGet(outcome.info.thumbnail, PyNone)]
       ELSE [j1 EXCEPT !.pc = "locate", !.title = Val(Unknown), !.duration = Val(0),
                       !.raised = Append(@, Exc("extract", outcome.msg))]

\* lines 117-125: ydl.extract_info(url, download=True)
Extract(j, outcome) ==
  LET j1 == [j EXCEPT !.attempts = @ + 1, !.steps = Append(@, "extract"),
                      !.files = outcome.files]
  IN IF outcome.ok
       THEN [j1 EXCEPT !.pc = "locate",
                       !.title = DictGet(outcome.info.title, Val(Unknown)),
                       !.duration = DictGet(outcome.info.duration, Val(0)),
                       !.thumbnail = DictGet(outcome.info.thumbnail, PyNone)]
       ELSE RaiseInWith(j1, Exc("extract", outcome.msg))

\* os.path.join(temp_dir, f'{asset_id}.{expected_ext}'), as a name in temp_dir
ExpectedName(asset_id, ext) == asset_id \o Dot \o ext

\* lines 131-134: the files the loop over os.listdir(temp_dir) may stop at.
\* os.listdir returns the names in arbitrary order, so the first name that
\* starts with asset_id is any of the names that do.
Prefixed(files, asset_id) == {f \in files : StartsWith(f, asset_id)}

\* Located with a third tier: a lone file is accepted whatever its name
LocatedLoneFile(files, asset_id, ext) ==
  LET expected == ExpectedName(asset_id, ext)
  IN IF expected \in files
       THEN { [found |-> TRUE, file |-> expected, ext |-> ext] }
     ELSE IF Prefixed(files, asset_id) # {}
       THEN { [found |-> TRUE, file |-> f, ext |-> LastSegment(f)] :
                f \in Prefixed(files, asset_id) }
     ELSE IF Cardinality(files) = 1
       THEN { [found |-> TRUE, file |-> f, ext |-> LastSegment(f)] : f \in files }
     ELSE { [found |-> FALSE, file |-> expected, ext |-> ext] }

\* Located without the exact-name tier: any file with the prefix may be taken
LocatedPrefixFirst(files, asset_id, ext) ==
  LET expected == ExpectedName(asset_id, ext)
  IN IF Prefixed(files, asset_id) # {}
       THEN { [found |-> TRUE, file |-> f,
               ext |-> IF f = expected THEN ext ELSE LastSegment(f)] :
                f \in Prefixed(files, asset_id) }
     ELSE { [found |-> FALSE, file |-> expected, ext |-> ext] }

\* lines 128-141: the results the search for the downloaded file may have
Located(files, asset_id, ext) ==
  LET expected == ExpectedName(asset_id, ext)
  IN IF expected \in files
       THEN { [found |-> TRUE, file |-> expected, ext |-> ext] }
     ELSE IF Prefixed(files, asset_id) # {}
       THEN { [found |-> TRUE, file |-> f, ext |-> LastSegment(f)] :
                f \in Prefixed(files, asset_id) }
     ELSE { [found |-> FALSE, file |-> expected, ext |-> ext] }

NotFoundMsg == Chars(40, "n")

\* Locate without line 137: expected_ext keeps the extension of the media type
LocateKeepsExt(j, loc) ==
  LET j1 == [j EXCEPT !.steps = Append(@, "locate"),
                      !.downloaded_file = Val(loc.file)]
  IN IF loc.found
       THEN [j1 EXCEPT !.pc = "upload"]
       ELSE RaiseInWith(j1, Exc("locate", NotFoundMsg))

\* lines 128-141 in the job; loc is the result of the search
Locate(j, loc) ==
  LET j1 == [j EXCEPT !.steps = Append(@, "locate"),
                      !.downloaded_file = Val(loc.file),
                      !.expected_ext = Val(loc.ext)]
  IN IF loc.found
       THEN [j1 EXCEPT !.pc = "upload"]
       ELSE RaiseInWith(j1, Exc("locate", NotFoundMsg))

\* f"{artist_id}/{asset_id}.{expected_ext}"
StoragePath(artist_id, asset_id, ext) == artist_id \o <<"/">> \o asset_id \o Dot \o ext

\* lines 143-157: read the file and upload it to the bucket
Upload(j, d, outcome) ==
  LET path == StoragePath(d.artist_id[1], d.asset_id[1], j.expected_ext[1])
      j1 == [j EXCEPT !.steps = Append(@, "upload"), !.storage_path = Val(path)]
  IN IF outcome.ok
       THEN [j1 EXCEPT !.pc = "public_url",
                       !.uploads = Append(@, [bucket |-> j.bucket[1], key |-> path,
                                              file |-> j.downloaded_file[1]])]
       ELSE RaiseInWith(j1, Exc("upload", outcome.msg))

\* line 160: supabase.storage.from_(bucket).get_public_url(storage_path)
PublicUrl(j, outcome) ==
  IF outcome.ok
    THEN [j EXCEPT !.pc = "send_ready",
                   !.public_url = Val([bucket |-> j.bucket[1], key |-> j.storage_path[1]])]
    ELSE RaiseInWith(j, Exc("public_url", outcome.msg))

\* ReadyPayload without clipping: title and duration are passed on as extracted
ReadyPayloadRaw(j, d, c) ==
  [ asset_id |-> d.asset_id, status |-> "ready", asset_url |-> j.public_url,
    title |-> j.title, duration |-> j.duration,
    secret |-> c.api_secret,
    thumbnail_url |-> IF j.thumbnail # PyNone THEN Key(j.thumbnail[1]) ELSE NoKey ]

\* lines 165-175: callback_payload
ReadyPayload(j, d, c) ==
  [ asset_id |-> d.asset_id, status |-> "ready", asset_url |-> j.public_url,
    title |-> IF TruthyStr(j.title) THEN Val(Prefix(j.title[1], TitleLimit)) ELSE PyNone,
    duration |-> IF TruthyInt(j.duration)
                   THEN Val(Min(j.duration[1], DurationCap)) ELSE PyNone,
    secret |-> c.api_secret,
    thumbnail_url |-> IF j.thumbnail # PyNone THEN Key(j.thumbnail[1]) ELSE NoKey ]

\* lines 165-177
SendReady(j, d, c, outcome) ==
  LET payload == ReadyPayload(j, d, c)
      r == send_callback(d.callback_url, payload, outcome)
      j1 == Called(j, payload, r)
  IN IF r.raised THEN RaiseInWith(j1, CallbackExc)
     ELSE [j1 EXCEPT !.pc = "return_ok"]

\* lines 181-187: the value of the return statement; the with-block is left next
ReturnOk(j) ==
  [j EXCEPT !.pc = "exit_with",
            !.retval = Val([code |-> 200, success |-> TRUE, url |-> j.public_url,
                            title |-> j.title, duration |-> j.duration])]

\* ExitWith with a fault: the directory is only removed on the return path
ExitWithLeak(j, outcome) ==
  IF outcome.ok
    THEN IF j.exc = PyNone
           THEN [j EXCEPT !.pc = "done", !.tmp = "removed", !.files = {},
                          !.resp = j.retval]
           ELSE [j EXCEPT !.pc = "handler"]
    ELSE LET e == Exc("cleanup", outcome.msg)
         IN [j EXCEPT !.pc = "handler", !.exc = Val(e), !.raised = Append(@, e)]

\* leaving `with tempfile.TemporaryDirectory()`: __exit__ removes the
\* directory tree.  When the removal succeeds the pending return or the
\* pending exception goes on; when it raises, the directory is left behind and
\* the new exception replaces whatever was pending.
ExitWith(j, outcome) ==
  IF outcome.ok
    THEN IF j.exc = PyNone
           THEN [j EXCEPT !.pc = "done", !.tmp = "removed", !.files = {},
                          !.resp = j.retval]
           ELSE [j EXCEPT !.pc = "handler", !.tmp = "removed", !.files = {}]
    ELSE LET e == Exc("cleanup", outcome.msg)
         IN [j EXCEPT !.pc = "handler", !.exc = Val(e), !.raised = Append(@, e)]

FailedPayload(d, c, error_msg) ==
  [ asset_id |-> d.asset_id, status |-> "failed", error_message |-> error_msg,
    secret |-> c.api_secret ]

\* Handler with a guard: no 'failed' callback once 'ready' has been sent
HandlerOnceOnly(j, d, c, outcome) ==
  LET error_msg == Prefix(j.exc[1].msg, ErrLimit)
      j1 == [j EXCEPT !.error_msg = Val(error_msg)]
      ready == \E i \in DOMAIN j.sent : j.sent[i].status = "ready"
  IN IF TruthyStr(d.callback_url) /\ TruthyStr(d.asset_id) /\ ~ready
       THEN LET payload == FailedPayload(d, c, error_msg)
                r == send_callback(d.callback_url, payload, outcome)
                j2 == Called(j1, payload, r)
            IN IF r.raised
                 THEN [j2 EXCEPT !.pc = "done",
                                 !.resp = Val([code |-> 500, unhandled |-> TRUE])]
                 ELSE [j2 EXCEPT !.pc = "return_error"]
       ELSE [j1 EXCEPT !.pc = "return_error"]

\* lines 189-201: except Exception as e
Handler(j, d, c, outcome) ==
  LET error_msg == Prefix(j.exc[1].msg, ErrLimit)
      j1 == [j EXCEPT !.error_msg = Val(error_msg)]
  IN IF TruthyStr(d.callback_url) /\ TruthyStr(d.asset_id)
       THEN LET payload == FailedPayload(d, c, error_msg)
                r == send_callback(d.callback_url, payload, outcome)
                j2 == Called(j1, payload, r)
            IN IF r.raised
                 THEN [j2 EXCEPT !.pc = "done",
                                 !.resp = Val([code |-> 500, unhandled |-> TRUE])]
                 ELSE [j2 EXCEPT !.pc = "return_error"]
       ELSE [j1 EXCEPT !.pc = "return_error"]

\* line 203
ReturnError(j) ==
  Return(j, [code |-> 500, error |-> j.error_msg[1]])

\* ----------------------------------------------------------- environment
Ok == [ok |-> TRUE]
Raises(msgs) == [ok : {FALSE}, msg : msgs]

\* the upload returns, or raises the error of the storage client or of its
\* HTTP transport
UploadOutcomes == {Ok} \cup Raises(ErrMsgs)

\* get_public_url returns, or raises
UrlOutcomes == {Ok} \cup Raises({UrlErrMsg})

\* creating and removing the temporary directory succeed, or raise an OSError
OsOutcomes == {Ok} \cup Raises({OsErrMsg})

\* the info dicts of a successful extraction: every title with duration 180,
\* every duration with title 'Song A', and 'Song A'/180 without a thumbnail
Infos ==
  { i \in [title : Titles, duration : Durations, thumbnail : Thumbnails] :
      /\ i.title = Key(Val(SongA)) \/ i.duration = Key(Val(180))
      /\ i.thumbnail = NoKey => i.title = Key(Val(SongA)) /\ i.duration = Key(Val(180)) }

\* what the remote service answers to the n-th extraction attempt of a job
Answers == {"ok", "transient"}

ExtractOutcomes(answer) ==
  IF answer = "ok"
    THEN [ok : {TRUE}, info : Infos, files : Listings]
    ELSE [ok : {FALSE}, msg : ErrMsgs,
          files : {S \in Listings : Cardinality(S) <= 1}]

\* ------------------------------------------------------------ transitions
\* job is the call of download() under the callback outcomes the receiver
\* chooses; ref is the same call, with the same request and the same
\* collaborators, when every callback is answered with status 200.
\* no call has started and the temp root is empty
ConcStart ==
  /\ calls = [i \in JobIds |-> NewJob]
  /\ solo = [i \in JobIds |-> NewJob]
  /\ temp_dir = [i \in JobIds |-> "none"]
  /\ tmpfs = [n \in DirNames |-> PyNone]

Init ==
  /\ config \in Configs
  /\ data \in Requests
  /\ remote \in [1..MaxStrategies -> Answers]
  /\ job = NewJob
  /\ ref = NewJob
  /\ ConcStart

Frame == UNCHANGED <<config, data, remote, concvars>>

DoValidate ==
  /\ job.pc = "validate"
  /\ job' = Validate(job, data, config)
  /\ ref' = IF ref.pc = "validate" THEN Validate(ref, data, config) ELSE ref
  /\ Frame

DoSendDownloading ==
  /\ job.pc = "send_downloading"
  /\ \E o \in PostOutcomes : job' = SendDownloading(job, data, config, o)
  /\ ref' = IF ref.pc = "send_downloading"
              THEN SendDownloading(ref, data, config, "status_200") ELSE ref
  /\ Frame

DoMkTemp ==
  /\ job.pc = "mktemp"
  /\ \E o \in OsOutcomes :
       /\ job' = MkTemp(job, o)
       /\ ref' = IF ref.pc = "mktemp" THEN MkTemp(ref, o) ELSE ref
  /\ Frame

\* remote answers attempts 1..MaxStrategies only
DoExtract ==
  /\ job.pc = "extract"
  /\ job.attempts < MaxStrategies
  /\ \E o \in ExtractOutcomes(remote[job.attempts + 1]) :
       /\ job' = Extract(job, o)
       /\ ref' = IF ref.pc = "extract" THEN Extract(ref, o) ELSE ref
  /\ Frame

DoLocate ==
  /\ job.pc = "locate"
  /\ \E loc \in Located(job.files, data.asset_id[1], job.expected_ext[1]) :
       /\ job' = Locate(job, loc)
       /\ ref' = IF ref.pc = "locate" THEN Locate(ref, loc) ELSE ref
  /\ Frame

DoUpload ==
  /\ job.pc = "upload"
  /\ \E o \in UploadOutcomes :
       /\ job' = Upload(job, data, o)
       /\ ref' = IF ref.pc = "upload" THEN Upload(ref, data, o) ELSE ref
  /\ Frame

DoPublicUrl ==
  /\ job.pc = "public_url"
  /\ \E o \in UrlOutcomes :
       /\ job' = PublicUrl(job, o)
       /\ ref' = IF ref.pc = "public_url" THEN PublicUrl(ref, o) ELSE ref
  /\ Frame

DoSendReady ==
  /\ job.pc = "send_ready"
  /\ \E o \in PostOutcomes : job' = SendReady(job, data, config, o)
  /\ ref' = IF ref.pc = "send_ready"
              THEN SendReady(ref, data, config, "status_200") ELSE ref
  /\ Frame

DoReturnOk ==
  /\ job.pc = "return_ok"
  /\ job' = ReturnOk(job)
  /\ ref' = IF ref.pc = "return_ok" THEN ReturnOk(ref) ELSE ref
  /\ Frame

DoExitWith ==
  /\ job.pc = "exit_with"
  /\ \E o \in OsOutcomes :
       /\ job' = ExitWith(job, o)
       /\ ref' = IF ref.pc = "exit_with" THEN ExitWith(ref, o) ELSE ref
  /\ Frame

DoHandler ==
  /\ job.pc = "handler"
  /\ \E o \in PostOutcomes : job' = Handler(job, data, config, o)
  /\ ref' = IF ref.pc = "handler"
              THEN Handler(ref, data, config, "status_200") ELSE ref
  /\ Frame

DoReturnError ==
  /\ job.pc = "return_error"
  /\ job' = ReturnError(job)
  /\ ref' = IF ref.pc = "return_error" THEN ReturnError(ref) ELSE ref
  /\ Frame

Next ==
  \/ DoValidate
  \/ DoSendDownloading
  \/ DoMkTemp
  \/ DoExtract
  \/ DoLocate
  \/ DoUpload
  \/ DoPublicUrl
  \/ DoSendReady
  \/ DoReturnOk
  \/ DoExitWith
  \/ DoHandler
  \/ DoReturnError

Spec == Init /\ [][Next]_vars

\* ------------------------------------------------------------ observations
\* number of callbacks of one status the job has sent
Count(j, status) == Cardinality({i \in DOMAIN j.sent : j.sent[i].status = status})

\* the exceptions raised at one site during the job
RaisedAt(j, site) == {i \in DOMAIN j.raised : j.raised[i].site = site}

\* the state the job ended in, read off the response of download()
Terminal(j) ==
  IF j.pc # "done" THEN "Running"
  ELSE IF j.resp[1].code = 200 THEN "Succeeded"
  ELSE IF "reject" \in DOMAIN j.resp[1] THEN "Rejected"
  ELSE "Failed"

\* number of leading extraction attempts the remote service answers with a
\* transient failure
RECURSIVE LeadingTransient(_, _)
LeadingTransient(r, n) ==
  IF n > MaxStrategies \/ r[n] # "transient" THEN 0
  ELSE 1 + LeadingTransient(r, n + 1)

\* the with-block was entered and nothing but the extraction went wrong
OnlyExtractionFails(j) ==
  /\ j.attempts >= 1
  /\ \A i \in DOMAIN j.raised : j.raised[i].site = "extract"

\* ------------------------------------------------------------------ claims
\* C1 (as claimed): a job that reached the 'downloading' callback has, when
\* download() returns, sent exactly one terminal callback: one 'ready' or one
\* 'failed', never both and never none.
C1_ExactlyOneTerminal ==
  (job.pc = "done" /\ Count(job, "downloading") >= 1)
    => Count(job, "ready") + Count(job, "failed") = 1

C4_ExhaustedFails ==
  (job.pc = "done" /\ job.attempts >= 1
     /\ Cardinality(RaisedAt(job, "extract")) = job.attempts)
    => /\ Terminal(job) = "Failed"
       /\ Count(job, "failed") = 1
       /\ Count(job, "ready") = 0
       /\ job.uploads = <<>>
       /\ ~("upload" \in {job.steps[i] : i \in DOMAIN job.steps})

\* C4 witness: a job whose extraction failed has ended
C4_Witness ==
  /\ job.pc = "done"
  /\ job.attempts = 1
  /\ RaisedAt(job, "extract") # {}
  /\ Count(job, "failed") = 1

\* C5 (as claimed): when the upload raises, the job ends Failed with a 'failed'
\* callback that carries the upload's error, sends no 'ready' callback and
\* makes no further extraction attempt.
C5_UploadFailure ==
  (job.pc = "done" /\ RaisedAt(job, "upload") # {})
    => /\ Terminal(job) = "Failed"
       /\ Count(job, "ready") = 0
       /\ job.attempts = 1
       /\ Count(job, "failed") = 1
       /\ \A i \in DOMAIN job.sent : \A k \in RaisedAt(job, "upload") :
            job.sent[i].status = "failed"
              => job.sent[i].error_message = Prefix(job.raised[k].msg, ErrLimit)

\* C6: send_callback never raises, and whatever the outcomes of the callbacks
\* the job takes the same steps, reaches the same position, keeps the same
\* locals, makes the same uploads, leaves the same temporary directory and
\* returns the same response as when every callback is answered with 200.
Obs(j) == [j EXCEPT !.cbret = <<>>]

C6_NotifyIndependent ==
  /\ job.cbraised = 0
  /\ Obs(job) = Obs(ref)

\* C6 witness: a job has ended Succeeded although both of its callbacks failed
C6_Witness ==
  /\ job.pc = "done"
  /\ job.cbret = <<FALSE, FALSE>>
  /\ Terminal(job) = "Succeeded"

\* C7: a job that passed validation sends exactly one 'downloading' callback,
\* as its first callback and before the first extraction attempt, and goes on
\* to the extraction whether or not that callback was delivered.
C7_DownloadingFirst ==
  /\ Count(job, "downloading") <= 1
  /\ job.sent # <<>> => job.sent[1].status = "downloading"
  /\ (job.attempts >= 1 \/ job.tmp # "none") => Count(job, "downloading") = 1
  /\ (job.pc \notin {"validate", "send_downloading"} /\ Terminal(job) # "Rejected")
       => Count(job, "downloading") = 1
  /\ (job.pc = "done" /\ Terminal(job) # "Rejected" /\ RaisedAt(job, "mktemp") = {})
       => job.attempts = 1

\* C7 witness: the extraction was attempted after an undelivered 'downloading'
C7_Witness ==
  /\ job.attempts = 1
  /\ job.cbret = <<FALSE>>
  /\ Count(job, "downloading") = 1

\* C8 (as claimed): a 'ready' callback is only sent after extraction, location
\* and upload completed in that order, and carries the title and the duration
\* the extractor returned and the public URL of the uploaded key.
C8_ReadyCarriesInfo ==
  \A i \in DOMAIN job.sent :
    job.sent[i].status = "ready"
      => /\ job.steps = <<"extract", "locate", "upload">>
         /\ TruthyStr(job.title) => job.sent[i].title = job.title
         /\ TruthyInt(job.duration) => job.sent[i].duration = job.duration
         /\ Len(job.uploads) = 1
         /\ job.sent[i].asset_url =
              Val([bucket |-> job.uploads[1].bucket, key |-> job.uploads[1].key])

\* C8 (amended): a 'ready' callback is only sent after extraction, location
\* and upload completed without error, in that order, and carries the public
\* URL of the uploaded key, the first 255 characters of the extractor's title
\* (null for an empty or null title) and the extractor's duration capped at
\* 86400 (null for a zero or null duration).
C8_ReadyCarriesClippedInfo ==
  \A i \in DOMAIN job.sent :
    job.sent[i].status = "ready"
      => LET p == job.sent[i]
         IN /\ job.steps = <<"extract", "locate", "upload">>
            /\ \A k \in DOMAIN job.raised : job.raised[k].site = "cleanup"
            /\ Len(job.uploads) = 1
            /\ p.asset_url =
                 Val([bucket |-> job.uploads[1].bucket, key |-> job.uploads[1].key])
            /\ (p.title = PyNone) <=> ~TruthyStr(job.title)
            /\ p.title # PyNone
                 => /\ Len(p.title[1]) <= TitleLimit
                    /\ StartsWith(job.title[1], p.title[1])
                    /\ Len(job.title[1]) <= TitleLimit => p.title = job.title
                    /\ Len(job.title[1]) > TitleLimit => Len(p.title[1]) = TitleLimit
            /\ (p.duration = PyNone) <=> ~TruthyInt(job.duration)
            /\ p.duration # PyNone
                 => /\ p.duration[1] <= DurationCap
                    /\ job.duration[1] <= DurationCap => p.duration = job.duration
                    /\ job.duration[1] > DurationCap => p.duration[1] = DurationCap

\* C8 witness: a 'ready' callback was sent for a title longer than the limit
C8_Witness ==
  /\ Count(job, "ready") = 1
  /\ TruthyStr(job.title) /\ Len(job.title[1]) > TitleLimit
  /\ \E i \in DOMAIN job.sent :
       job.sent[i].status = "ready" /\ Len(job.sent[i].title[1]) = TitleLimit

\* C9 (as claimed): every 'failed' callback carries an error message of 1 to
\* 500 characters, and the error response carries the same message.
C9_ErrorMessageBounded ==
  \A i \in DOMAIN job.sent :
    job.sent[i].status = "failed"
      => /\ Len(job.sent[i].error_message) >= 1
         /\ Len(job.sent[i].error_message) <= ErrLimit
         /\ job.pc = "done" => job.resp[1].error = job.sent[i].error_message

\* C10 (as claimed): when the temporary directory holds exactly one file, the
\* search for the downloaded file returns that file, whatever its name, and
\* searching again returns it again.
StepsOf(j) == {j.steps[i] : i \in DOMAIN j.steps}

CanonicalExt(j) == IF j.media_type = Val("audio") THEN MP3 ELSE MP4

\* the search has been made and the temporary directory is still there
Searched(j) == "locate" \in StepsOf(j) /\ j.tmp = "exists"

\* C11: the search follows the priority: a file with the expected name and
\* extension is taken even when other files start with the asset id;
\* otherwise a file that starts with the asset id is taken; otherwise, when
\* the directory holds no file or more than one file, the job raises the
\* not-found error and uploads nothing.
C11_LocatePriority ==
  /\ Searched(job)
       => LET expected == ExpectedName(data.asset_id[1], CanonicalExt(job))
              prefixed == Prefixed(job.files, data.asset_id[1])
          IN /\ expected \in job.files
                  => /\ job.downloaded_file = Val(expected)
                     /\ RaisedAt(job, "locate") = {}
             /\ (expected \notin job.files /\ prefixed # {})
                  => /\ job.downloaded_file[1] \in prefixed
                     /\ RaisedAt(job, "locate") = {}
             /\ (prefixed = {} /\ Cardinality(job.files) # 1)
                  => /\ RaisedAt(job, "locate") # {}
                     /\ job.uploads = <<>>
                     /\ "upload" \notin StepsOf(job)
  /\ RaisedAt(job, "locate") # {}
       => /\ job.uploads = <<>>
          /\ "upload" \notin StepsOf(job)
          /\ job.pc = "done" => Terminal(job) = "Failed"

\* C11 witness: the expected file was taken although another file with the
\* asset id as prefix was in the directory
C11_Witness ==
  /\ Searched(job)
  /\ job.media_type = Val("audio")
  /\ job.files = {AssetId \o Dot \o MP3, AssetId \o Dot \o WEBM}
  /\ job.downloaded_file = Val(AssetId \o Dot \o MP3)

\* C12 (as claimed): the storage key of the upload is '<artist>/<asset>.<ext>'
\* with ext the extension of the media type (mp3 for audio, mp4 for video),
\* whichever file the search returned.
C12_KeyFromMediaType ==
  "upload" \in StepsOf(job)
    => job.storage_path =
         Val(StoragePath(data.artist_id[1], data.asset_id[1], CanonicalExt(job)))

\* C12 (amended): the storage key is '<artist>/<asset>.<ext>'; ext is the
\* extension of the media type when the file with the expected name was
\* found, and otherwise the part of the found file's name after its last dot
\* (the whole name when it has no dot).
C12_KeyFromLocatedFile ==
  "upload" \in StepsOf(job)
    => LET f == job.downloaded_file[1]
           ext == IF f = ExpectedName(data.asset_id[1], CanonicalExt(job))
                    THEN CanonicalExt(job) ELSE LastSegment(f)
       IN /\ job.storage_path =
               Val(StoragePath(data.artist_id[1], data.asset_id[1], ext))
          /\ \A i \in DOMAIN job.uploads :
               /\ job.uploads[i].key = job.storage_path[1]
               /\ job.uploads[i].file = f
               /\ job.uploads[i].bucket =
                    (IF job.media_type = Val("audio") THEN "audio-files" ELSE "media-assets")

\* C12 witness: an audio job has uploaded a .webm file under a .webm key
C12_Witness ==
  /\ Len(job.uploads) = 1
  /\ job.media_type = Val("audio")
  /\ job.uploads[1].key = StoragePath(ArtistId, AssetId, WEBM)

\* C13: every callback of the job carries the secret of the job's request,
\* unchanged, and the asset id of the job's request.
C13_SecretPropagated ==
  \A i \in DOMAIN job.sent :
    /\ job.sent[i].secret = data.secret
    /\ job.sent[i].asset_id = data.asset_id

\* C13 witness: a terminal callback has been sent after the 'downloading' one
C13_Witness ==
  /\ Len(job.sent) >= 2
  /\ job.sent[1].status = "downloading"
  /\ job.sent[2].status \in {"ready", "failed"}
  /\ job.sent[2].secret = Val(ApiSecret)

\* the response is the 500 of line 203
ErrorResponse(j) == j.resp[1].code = 500 /\ "error" \in DOMAIN j.resp[1]

\* the response is the 200 of lines 181-187
SuccessResponse(j) == j.resp[1].code = 200 /\ j.resp[1].success

\* C15: when download() has returned, its response is the success response
\* exactly when a 'ready' and no 'failed' callback was sent, and it is the
\* error response of the pipeline exactly when a 'failed' callback was sent.
C15_ResponseMatchesCallback ==
  job.pc = "done"
    => /\ SuccessResponse(job)
            <=> (Count(job, "ready") >= 1 /\ Count(job, "failed") = 0)
       /\ ErrorResponse(job) <=> Count(job, "failed") >= 1

\* C15 witness: a job that had sent 'ready' ended with 'failed' and the error
\* response, because the removal of its temporary directory raised
C15_Witness ==
  /\ job.pc = "done"
  /\ Count(job, "ready") = 1
  /\ Count(job, "failed") = 1
  /\ ErrorResponse(job)

\* C16: a request that is rejected by the checks of lines 60-74 has no
\* effect: no callback, no temporary directory, no extraction, no upload.
C16_RejectedNoEffects ==
  Terminal(job) = "Rejected"
    => /\ job.sent = <<>>
       /\ job.cbret = <<>>
       /\ job.tmp = "none" /\ job.files = {}
       /\ job.attempts = 0
       /\ job.steps = <<>>
       /\ job.uploads = <<>>
       /\ job.raised = <<>>

\* C16 witness: an authorised and complete request was rejected because the
\* storage client is not configured
C16_Witness ==
  /\ Terminal(job) = "Rejected"
  /\ job.resp[1].code = 500
  /\ data.secret = config.api_secret
  /\ ~config.supabase

\* ---------------------------------------------------------------- liveness
\* Every external call (requests.post, TemporaryDirectory, extract_info,
\* upload, get_public_url) returns or raises, and the handler runs on a
\* worker of its own: a step that can be taken is eventually taken.
FairSpec == Spec /\ WF_vars(Next)

\* ydl.extract_info is called at one place, outside any loop (line 119)
AttemptCap == 1

\* C17: under FairSpec a job that passed validation eventually returns a
\* response in state Succeeded or Failed, every call of download() eventually
\* returns, and a job never makes more than AttemptCap extraction attempts.
C17_Terminates ==
  /\ (job.pc = "send_downloading")
       ~> (job.pc = "done" /\ job.resp # PyNone
             /\ Terminal(job) \in {"Succeeded", "Failed"})
  /\ <>(job.pc = "done" /\ job.resp # PyNone)
  /\ [](job.attempts <= AttemptCap)

\* C17 witness: a job that made its one extraction attempt has returned
C17_Witness ==
  /\ job.pc = "done"
  /\ job.attempts = AttemptCap
  /\ job.resp # PyNone
  /\ Terminal(job) \in {"Succeeded", "Failed"}

\* ------------------------------------------------------- concurrent calls
\* The two calls have different asset ids; the second id has the first as
\* a prefix, so that a file of the second call would match the search of
\* the first if the first could see it.
AssetIdB == AssetId \o <<"0">>

ConcConfig == [api_secret |-> Val(ApiSecret), supabase |-> TRUE]

ConcData(i) ==
  [ secret |-> Val(ApiSecret), url |-> Val(SourceUrl),
    type |-> IF i = 1 THEN Key("audio") ELSE Key("video"),
    asset_id |-> IF i = 1 THEN Val(AssetId) ELSE Val(AssetIdB),
    artist_id |-> Val(ArtistId), callback_url |-> Val(CallbackUrl) ]

ConcErrMsg == Chars(3, "x")

ConcPostOutcomes == {"status_200", "raises"}

ConcInfo == [title |-> Key(Val(SongA)), duration |-> Key(Val(180)), thumbnail |-> NoKey]

\* extract_info writes '<asset_id>.mp3', '<asset_id>.webm' or nothing, or raises
ConcExtractOutcomes(asset_id) ==
  [ok : {TRUE}, info : {ConcInfo},
   files : {{asset_id \o Dot \o MP3}, {asset_id \o Dot \o WEBM}, {}}]
    \cup [ok : {FALSE}, msg : {ConcErrMsg}, files : {{}}]

ConcUploadOutcomes == {Ok} \cup Raises({ConcErrMsg})

\* a directory name that is the same for every call
mkdtemp_fixed(fs) == {"tmp_a"}

\* line 86: TemporaryDirectory() creates a directory under a name that no
\* existing directory has
mkdtemp(fs) == {n \in DirNames : fs[n] = PyNone}

\* the call as it finds its directory in the temp root
View(j, dir, fs) ==
  IF j.tmp = "exists"
    THEN [j EXCEPT !.files = IF fs[dir] = PyNone THEN {} ELSE fs[dir][1]]
    ELSE j

ConcInit ==
  /\ config = ConcConfig
  /\ data = ConcData(1)
  /\ remote = [n \in 1..MaxStrategies |-> "ok"]
  /\ job = NewJob
  /\ ref = NewJob
  /\ ConcStart

ConcFrame == UNCHANGED <<config, data, remote, job, ref>>

\* call i goes to next; alone, it goes to alone
Step(i, next, alone) ==
  /\ calls' = [calls EXCEPT ![i] = next]
  /\ solo' = [solo EXCEPT ![i] = IF solo[i].pc = calls[i].pc THEN alone ELSE @]
  /\ ConcFrame

CValidate(i) ==
  /\ calls[i].pc = "validate"
  /\ Step(i, Validate(calls[i], ConcData(i), ConcConfig),
             Validate(solo[i], ConcData(i), ConcConfig))
  /\ UNCHANGED <<temp_dir, tmpfs>>

CSendDownloading(i) ==
  /\ calls[i].pc = "send_downloading"
  /\ \E o \in ConcPostOutcomes :
       Step(i, SendDownloading(calls[i], ConcData(i), ConcConfig, o),
               SendDownloading(solo[i], ConcData(i), ConcConfig, o))
  /\ UNCHANGED <<temp_dir, tmpfs>>

CMkTemp(i) ==
  /\ calls[i].pc = "mktemp"
  /\ \E o \in OsOutcomes :
       /\ IF o.ok
            THEN \E n \in mkdtemp(tmpfs) :
                   /\ temp_dir' = [temp_dir EXCEPT ![i] = n]
                   /\ tmpfs' = [tmpfs EXCEPT ![n] = IF @ = PyNone THEN Val({}) ELSE @]
            ELSE UNCHANGED <<temp_dir, tmpfs>>
       /\ Step(i, MkTemp(calls[i], o), MkTemp(solo[i], o))

CExtract(i) ==
  /\ calls[i].pc = "extract"
  /\ \E o \in ConcExtractOutcomes(ConcData(i).asset_id[1]) :
       LET v == View(calls[i], temp_dir[i], tmpfs)
           content == v.files \cup o.files
       IN /\ Step(i, [Extract(v, o) EXCEPT !.files = content], Extract(solo[i], o))
          /\ tmpfs' = [tmpfs EXCEPT ![temp_dir[i]] = Val(content)]
  /\ UNCHANGED temp_dir

CLocate(i) ==
  /\ calls[i].pc = "locate"
  /\ LET v == View(calls[i], temp_dir[i], tmpfs)
         asset_id == ConcData(i).asset_id[1]
     IN \E loc \in Located(v.files, asset_id, v.expected_ext[1]),
           sloc \in Located(solo[i].files, asset_id, solo[i].expected_ext[1]) :
          /\ v.files = solo[i].files => sloc = loc
          /\ Step(i, Locate(v, loc), Locate(solo[i], sloc))
  /\ UNCHANGED <<temp_dir, tmpfs>>

\* open(downloaded_file, 'rb') raises when the file is not there
CUpload(i) ==
  /\ calls[i].pc = "upload"
  /\ \E o \in ConcUploadOutcomes :
       LET v == View(calls[i], temp_dir[i], tmpfs)
           eff == IF v.downloaded_file[1] \in v.files
                    THEN o ELSE [ok |-> FALSE, msg |-> OsErrMsg]
       IN Step(i, Upload(v, ConcData(i), eff), Upload(solo[i], ConcData(i), o))
  /\ UNCHANGED <<temp_dir, tmpfs>>

CPublicUrl(i) ==
  /\ calls[i].pc = "public_url"
  /\ \E o \in UrlOutcomes : Step(i, PublicUrl(calls[i], o), PublicUrl(solo[i], o))
  /\ UNCHANGED <<temp_dir, tmpfs>>

CSendReady(i) ==
  /\ calls[i].pc = "send_ready"
  /\ \E o \in ConcPostOutcomes :
       Step(i, SendReady(calls[i], ConcData(i), ConcConfig, o),
               SendReady(solo[i], ConcData(i), ConcConfig, o))
  /\ UNCHANGED <<temp_dir, tmpfs>>

CReturnOk(i) ==
  /\ calls[i].pc = "return_ok"
  /\ Step(i, ReturnOk(calls[i]), ReturnOk(solo[i]))
  /\ UNCHANGED <<temp_dir, tmpfs>>

\* the removal takes the directory with everything in it
CExitWith(i) ==
  /\ calls[i].pc = "exit_with"
  /\ \E o \in OsOutcomes :
       /\ Step(i, ExitWith(View(calls[i], temp_dir[i], tmpfs), o), ExitWith(solo[i], o))
       /\ tmpfs' = IF o.ok THEN [tmpfs EXCEPT ![temp_dir[i]] = PyNone] ELSE tmpfs
  /\ UNCHANGED temp_dir

CHandler(i) ==
  /\ calls[i].pc = "handler"
  /\ \E o \in ConcPostOutcomes :
       Step(i, Handler(calls[i], ConcData(i), ConcConfig, o),
               Handler(solo[i], ConcData(i), ConcConfig, o))
  /\ UNCHANGED <<temp_dir, tmpfs>>

CReturnError(i) ==
  /\ calls[i].pc = "return_error"
  /\ Step(i, ReturnError(calls[i]), ReturnError(solo[i]))
  /\ UNCHANGED <<temp_dir, tmpfs>>

ConcNext ==
  \E i \in JobIds :
    \/ CValidate(i)
    \/ CSendDownloading(i)
    \/ CMkTemp(i)
    \/ CExtract(i)
    \/ CLocate(i)
    \/ CUpload(i)
    \/ CPublicUrl(i)
    \/ CSendReady(i)
    \/ CReturnOk(i)
    \/ CExitWith(i)
    \/ CHandler(i)
    \/ CReturnError(i)

ConcSpec == ConcInit /\ [][ConcNext]_vars

\* C14: in every interleaving of two calls of download(), the calls hold
\* different temporary directories, the directory of a call holds exactly the
\* files the call itself put there, the calls upload under different keys,
\* and each call is, at every step, in the state it is in when it runs alone:
\* same position, locals, callbacks, uploads and response.
C14_Isolated ==
  /\ \A i \in JobIds : calls[i] = solo[i]
  /\ \A i \in JobIds :
       calls[i].tmp = "exists" => tmpfs[temp_dir[i]] = Val(calls[i].files)
  /\ \A i, k \in JobIds :
       (i # k /\ calls[i].tmp = "exists" /\ calls[k].tmp = "exists")
         => temp_dir[i] # temp_dir[k]
  /\ \A i, k \in JobIds :
       i # k => \A m \in DOMAIN calls[i].uploads, n \in DOMAIN calls[k].uploads :
                  calls[i].uploads[m].key # calls[k].uploads[n].key

\* C14 witness: both calls are inside their with-blocks at the same time,
\* each with a file of its own in its directory
C14_Witness ==
  /\ calls[1].pc = "upload" /\ calls[2].pc = "locate"
  /\ calls[1].tmp = "exists" /\ calls[2].tmp = "exists"
  /\ calls[1].files # {} /\ calls[2].files # {}
====
